---- MODULE Spec2Model ----
(***************************************************************************)
(* Model of jmespath-native (src/src/lib.rs): the JMESSlice descriptor,    *)
(* its FromStr parser and range conversions, and the JMESPath primitives   *)
(* implemented for serde_json::Value.                                      *)
(*                                                                         *)
(* The primitives are pure functions; they are modelled as operators and   *)
(* exercised by three state machines:                                      *)
(*   Spec       a pipeline: a Value is fed through a chain of primitives,  *)
(*              each step recording its input, arguments and result;       *)
(*   SpecSlice  slice and slice_project applied to a document;             *)
(*   SpecParse  descriptor construction: from_str on a text, and the three *)
(*              From<Range..> conversions.                                 *)
(***************************************************************************)
EXTENDS Integers, Sequences, FiniteSets, Bags, TLC

(***************************************************************************)
(* Bounds of the model.                                                    *)
(***************************************************************************)
\* Width of isize/usize in the model (64 on the usual targets; scaled down
\* so that both ends of the range are among the enumerated inputs).
IsizeBits == 5
\* Longest text handed to from_str.
MaxTextLen == 5
\* Largest magnitude of the "ordinary" integer arguments that are enumerated
\* next to isize::MIN and isize::MAX.
MaxArg == 7
\* Largest magnitude of the ordinary slice bounds and of the ordinary steps.
MaxBound == 5
MaxStep == 3
\* Longest chain of primitives applied to one document.
MaxDepth == 2

RECURSIVE Pow2(_)
Pow2(n) == IF n = 0 THEN 1 ELSE 2 * Pow2(n - 1)

ISIZE_MAX == Pow2(IsizeBits - 1) - 1
ISIZE_MIN == 0 - Pow2(IsizeBits - 1)
Isize == ISIZE_MIN..ISIZE_MAX

\* Option<T>: None is the empty tuple, Some(x) the one-element tuple.
None == <<>>
Some(x) == <<x>>
IsSome(o) == Len(o) = 1
Unwrap(o) == o[1]

(***************************************************************************)
(* JMESSlice and its construction (lib.rs 6-71).                           *)
(***************************************************************************)
JMESSlice(start, end, step) == [start |-> start, end |-> end, step |-> step]

\* #[derive(Default)]: every field None.
DefaultSlice == JMESSlice(None, None, None)

\* Result<JMESSlice, ParseJMESSliceError>, extended with the unwinding
\* outcome of a failed `expect`.
Ok(d) == <<"Ok", d>>
Err(e) == <<"Err", e>>
Panic(msg) == <<"panic", msg>>
InvalidFormat == "InvalidFormat"
StepNotAllowedToBeZero == "StepNotAllowedToBeZero"

\* Characters of the modelled texts.  "U+0663" stands for the one-character
\* text ARABIC-INDIC DIGIT THREE, a member of Unicode's Nd category.
AsciiDigits == {"0", "1", "9"}
UnicodeDigits == AsciiDigits \cup {"U+0663"}
Chars == UnicodeDigits \cup {"-", ":", "x"}

DigitVal(c) == CASE c = "0" -> 0 [] c = "1" -> 1 [] c = "9" -> 9

\* Positions of the ':' characters of s, ascending.
ColonPositions(s) == {i \in 1..Len(s) : s[i] = ":"}

\* `-?\d+` anchored on a whole piece; \d of the regex crate is Unicode-aware.
MatchesInt(p) ==
    LET body == IF Len(p) > 0 /\ p[1] = "-" THEN Tail(p) ELSE p
    IN  /\ Len(body) > 0
        /\ \A i \in 1..Len(body) : body[i] \in UnicodeDigits

\* The capture groups of
\*   ^(?P<start>-?\d+)?:(?P<end>-?\d+)?(:(?P<step>-?\d+)?)?$
\* on s: None when the text does not match, otherwise Some of the three
\* captured pieces (an unmatched group is the empty text).
regex_captures(s) ==
    LET cols == ColonPositions(s)
        n == Cardinality(cols)
        c1 == CHOOSE i \in cols : \A j \in cols : i <= j
        c2 == CHOOSE i \in cols : \A j \in cols : j <= i
        start == SubSeq(s, 1, c1 - 1)
        end == IF n = 1 THEN SubSeq(s, c1 + 1, Len(s)) ELSE SubSeq(s, c1 + 1, c2 - 1)
        step == IF n = 1 THEN <<>> ELSE SubSeq(s, c2 + 1, Len(s))
        piece(p) == p = <<>> \/ MatchesInt(p)
    IN  IF n \in {1, 2} /\ piece(start) /\ piece(end) /\ piece(step)
        THEN Some([start |-> start, end |-> end, step |-> step])
        ELSE None

RECURSIVE Magnitude(_)
Magnitude(digits) ==
    IF digits = <<>> THEN 0
    ELSE 10 * Magnitude(SubSeq(digits, 1, Len(digits) - 1)) + DigitVal(digits[Len(digits)])

\* str::parse::<isize>: an optional sign, then one or more ASCII digits, the
\* value within the range of isize; anything else is an Err.
parse_isize(p) ==
    LET neg == Len(p) > 0 /\ p[1] = "-"
        body == IF Len(p) > 0 /\ p[1] = "-" THEN Tail(p) ELSE p
        v == IF neg THEN 0 - Magnitude(body) ELSE Magnitude(body)
    IN  IF Len(body) = 0 \/ \E i \in 1..Len(body) : body[i] \notin AsciiDigits
        THEN Err("InvalidDigit")
        ELSE IF v \in Isize THEN Ok(v) ELSE Err("Overflow")

\* The closure option_isize: "" is None, otherwise the parsed integer, and a
\* panic when the parse is an Err (`expect`).
option_isize(p) ==
    IF p = <<>> THEN Ok(None)
    ELSE IF parse_isize(p)[1] = "Ok" THEN Ok(Some(parse_isize(p)[2]))
    ELSE Panic("Regex ensures valid")

\* NonZeroIsize::new(i).ok_or(StepNotAllowedToBeZero)
NonZeroIsize_new(i) == IF i = 0 THEN Err(StepNotAllowedToBeZero) ELSE Ok(i)

\* <JMESSlice as FromStr>::from_str.  The fields are evaluated in the order
\* start, end, step.
from_str(s) ==
    LET caps == regex_captures(s) IN
    IF ~IsSome(caps) THEN Err(InvalidFormat)
    ELSE
      LET start == option_isize(Unwrap(caps).start)
          end == option_isize(Unwrap(caps).end)
          step == option_isize(Unwrap(caps).step)
      IN  IF start[1] = "panic" THEN start
          ELSE IF end[1] = "panic" THEN end
          ELSE IF step[1] = "panic" THEN step
          ELSE IF IsSome(step[2]) /\ NonZeroIsize_new(Unwrap(step[2]))[1] = "Err"
               THEN NonZeroIsize_new(Unwrap(step[2]))
          ELSE Ok(JMESSlice(start[2], end[2], step[2]))

\* From<ops::Range<isize>>, From<ops::RangeFrom<isize>>, From<ops::RangeTo<isize>>
from_Range(a, b) == JMESSlice(Some(a), Some(b), None)
from_RangeFrom(a) == [DefaultSlice EXCEPT !.start = Some(a)]
from_RangeTo(b) == [DefaultSlice EXCEPT !.end = Some(b)]


(***************************************************************************)
(* serde_json::Value, a tuple of the variant's name and its payload.  An   *)
(* Array carries the sequence of its elements, an Object carries its entries as the sequence of    *)
(* <<key, value>> pairs in the order its iterator yields them (distinct    *)
(* keys; the order is the map's: sorted keys, or insertion order under     *)
(* serde_json's preserve_order feature).                                   *)
(***************************************************************************)
Null == <<"null">>
Bool(b) == <<"bool", b>>
Number(n) == <<"num", n>>
String(s) == <<"str", s>>
Array(vec) == <<"arr", vec>>
Object(map) == <<"obj", map>>

is_null(value) == value[1] = "null"
is_array(value) == value[1] = "arr"
is_object(value) == value[1] = "obj"

\* isize::is_negative and isize::unsigned_abs (the result is a usize; for
\* isize::MIN it is 2^(IsizeBits-1), which a usize holds).
is_negative(i) == i < 0
unsigned_abs(i) == IF i < 0 THEN 0 - i ELSE i

\* usize::checked_sub
checked_sub(a, b) == IF a >= b THEN Some(a - b) ELSE None

\* Map::remove(key): the value stored under key, if any.
map_remove(map, key) ==
    IF \E j \in 1..Len(map) : map[j][1] = key
    THEN Some(map[CHOOSE j \in 1..Len(map) : map[j][1] = key][2])
    ELSE None

identify(self, key) ==
    IF is_object(self)
    THEN IF IsSome(map_remove(self[2], key)) THEN Unwrap(map_remove(self[2], key)) ELSE Null
    ELSE Null

\* Vec::remove(index) returns the element at the zero-based offset index.
index_unsigned(self, i) ==
    IF is_array(self)
    THEN IF unsigned_abs(i) < Len(self[2]) THEN self[2][unsigned_abs(i) + 1] ELSE Null
    ELSE Null

index(self, i) ==
    IF is_array(self)
    THEN LET n == Len(self[2])
             back == checked_sub(n, unsigned_abs(i))
         IN  IF is_negative(i) /\ ~IsSome(back) THEN Null
             ELSE LET off == IF is_negative(i) THEN Unwrap(back) ELSE unsigned_abs(i)
                  IN  IF off < n THEN self[2][off + 1] ELSE Null
    ELSE Null

(***************************************************************************)
(* slyce::Slice and slyce::Index, the slicing library `slice` delegates    *)
(* to.  Its source is not part of the repository; Slice::apply is          *)
(* modelled by the sequence-slicing rule the library documents (Python's   *)
(* slice.indices), which the repository's tests at lib.rs 274-309 sample.  *)
(***************************************************************************)
Index_Head(n) == <<"Head", n>>
Index_Tail(n) == <<"Tail", n>>
Index_Default == <<"Default">>

Clamp(x, lo, hi) == IF x < lo THEN lo ELSE IF x > hi THEN hi ELSE x

\* The offsets i, i + step, i + 2*step, ... that lie before `end` in the
\* direction of travel.
RECURSIVE slyce_iter(_, _, _)
slyce_iter(i, end, step) ==
    IF (step > 0 /\ i < end) \/ (step < 0 /\ i > end)
    THEN <<i>> \o slyce_iter(i + step, end, step)
    ELSE <<>>

slyce_indices(op, len) ==
    LET step == IF IsSome(op.step) THEN Unwrap(op.step) ELSE 1
        lo == IF step > 0 THEN 0 ELSE 0 - 1
        hi == IF step > 0 THEN len ELSE len - 1
        abs(ix) == IF ix[1] = "Head" THEN ix[2] ELSE len - ix[2]
        start == IF op.start = Index_Default THEN (IF step > 0 THEN lo ELSE hi)
                 ELSE Clamp(abs(op.start), lo, hi)
        end == IF op.end = Index_Default THEN (IF step > 0 THEN hi ELSE lo)
               ELSE Clamp(abs(op.end), lo, hi)
    IN  slyce_iter(start, end, step)

slyce_apply(op, vec) ==
    LET ixs == slyce_indices(op, Len(vec))
    IN  [j \in 1..Len(ixs) |-> vec[ixs[j] + 1]]

(***************************************************************************)
(* JMESPath for Value, continued (lib.rs 113-183).                         *)
(***************************************************************************)
\* The match on slice.start / slice.end.
to_Index(o) ==
    IF ~IsSome(o) THEN Index_Default
    ELSE IF is_negative(Unwrap(o)) THEN Index_Tail(unsigned_abs(Unwrap(o)))
    ELSE Index_Head(unsigned_abs(Unwrap(o)))

slice_all_Head(self, sl) ==
    IF is_array(self)
    THEN LET hd(o) == IF IsSome(o) THEN Index_Head(unsigned_abs(Unwrap(o))) ELSE Index_Default
         IN  Array(slyce_apply([start |-> hd(sl.start), end |-> hd(sl.end), step |-> sl.step],
                               self[2]))
    ELSE Null

slice_ignoring_step(self, sl) ==
    IF is_array(self)
    THEN Array(slyce_apply([start |-> to_Index(sl.start), end |-> to_Index(sl.end),
                            step |-> None], self[2]))
    ELSE Null

slice(self, sl) ==
    IF is_array(self)
    THEN LET op == [start |-> to_Index(sl.start),
                    end |-> to_Index(sl.end),
                    step |-> sl.step]
         IN  Array(slyce_apply(op, self[2]))
    ELSE Null

\* .filter(|value| !value.is_null()).collect() on the mapped elements.
filter_collect(mapped) == SelectSeq(mapped, LAMBDA value : ~is_null(value))

\* The closures handed to the projections.  A projection is any
\* Fn(Value) -> Value; the model enumerates these:
\*   identify(key)            |v| v.identify(key)
\*   identify_project(k, k2)  |v| v.identify(k).list_project(|v| v.identify(k2))
\*   index(i)                 |v| v.index(i)
\*   identity                 |v| v
\*   null                     |_| Null
Closure(f, key, key2, i) == [f |-> f, key |-> key, key2 |-> key2, i |-> i]
closure_identify(key) == Closure("identify", key, "", 0)
closure_identify_project(key, key2) == Closure("identify_project", key, key2, 0)
closure_index(i) == Closure("index", "", "", i)
closure_identity == Closure("identity", "", "", 0)
closure_null == Closure("null", "", "", 0)

call(c, v) ==
    CASE c.f = "identify" -> identify(v, c.key)
      [] c.f = "identify_project" ->
            IF is_array(identify(v, c.key))
            THEN Array(filter_collect([j \in 1..Len(identify(v, c.key)[2]) |->
                                          identify(identify(v, c.key)[2][j], c.key2)]))
            ELSE Null
      [] c.f = "index" -> index(v, c.i)
      [] c.f = "identity" -> v
      [] c.f = "null" -> Null

list_project_keeping_null(self, projection) ==
    IF is_array(self)
    THEN Array([j \in 1..Len(self[2]) |-> call(projection, self[2][j])])
    ELSE Null

list_project(self, projection) ==
    IF is_array(self)
    THEN Array(filter_collect([j \in 1..Len(self[2]) |-> call(projection, self[2][j])]))
    ELSE Null

slice_project_then_slice(self, sl, projection) ==
    IF is_array(self)
    THEN slice(list_project(self, projection), sl)
    ELSE Null

slice_project(self, sl, projection) ==
    IF is_array(self)
    THEN list_project(slice(self, sl), projection)
    ELSE Null

object_project_as_object(self, projection) ==
    IF is_object(self)
    THEN Object(SelectSeq([j \in 1..Len(self[2]) |->
                              <<self[2][j][1], call(projection, self[2][j][2])>>],
                          LAMBDA e : ~is_null(e[2])))
    ELSE Null

object_project(self, projection) ==
    IF is_object(self)
    THEN Array(filter_collect([j \in 1..Len(self[2]) |-> call(projection, self[2][j][2])]))
    ELSE Null

\* The loop body of flatten: an Array element is appended element by
\* element, any other element is pushed.
RECURSIVE flatten_loop(_, _)
flatten_loop(vec, results) ==
    IF vec = <<>> THEN results
    ELSE flatten_loop(Tail(vec),
                      IF is_array(Head(vec)) THEN results \o Head(vec)[2]
                      ELSE Append(results, Head(vec)))

RECURSIVE flatten_deep_loop(_, _)
flatten_deep_loop(vec, results) ==
    IF vec = <<>> THEN results
    ELSE flatten_deep_loop(Tail(vec),
                           IF is_array(Head(vec))
                           THEN results \o flatten_deep_loop(Head(vec)[2], <<>>)
                           ELSE Append(results, Head(vec)))

flatten_deep(self) == IF is_array(self) THEN Array(flatten_deep_loop(self[2], <<>>)) ELSE Null

flatten(self) == IF is_array(self) THEN Array(flatten_loop(self[2], <<>>)) ELSE Null

\* How many times the primitive invokes its projection closure: once per
\* element the iterator yields, never on a value the match rejects.
list_project_calls(self) == IF is_array(self) THEN Len(self[2]) ELSE 0
slice_project_calls(self, sl) == IF is_array(self) THEN list_project_calls(slice(self, sl)) ELSE 0
object_project_calls(self) == IF is_object(self) THEN Len(self[2]) ELSE 0

(***************************************************************************)
(* Documents: the fixtures of the tests (lib.rs 191-404) and the values    *)
(* of the other variants.                                                  *)
(***************************************************************************)
flatmap == Object(<<<<"a", String("foo")>>, <<"b", String("bar")>>, <<"c", String("baz")>>>>)
array == Array(<<String("a"), String("b"), String("c"), String("d"), String("e"), String("f")>>)
slice_example == Array(<<Number(0), Number(1), Number(2), Number(3)>>)
people == Array(<<
    Object(<<<<"first", String("James")>>, <<"last", String("d")>>>>),
    Object(<<<<"first", String("Jacob")>>, <<"last", String("e")>>>>),
    Object(<<<<"first", String("Jayden")>>, <<"last", String("f")>>>>),
    Object(<<<<"missing", String("different")>>>>)>>)
list_project_example ==
    Object(<<<<"foo", Object(<<<<"bar", String("baz")>>>>)>>, <<"people", people>>>>)
ops_entries == <<
    <<"functionA", Object(<<<<"numArgs", Number(2)>>>>)>>,
    <<"functionB", Object(<<<<"numArgs", Number(3)>>>>)>>,
    <<"functionC", Object(<<<<"variadic", Bool(TRUE)>>>>)>>>>
instance(state) == Object(<<<<"state", String(state)>>>>)
reservations == Array(<<
    Object(<<<<"instances", Array(<<instance("running"), instance("stopped")>>)>>>>),
    Object(<<<<"instances", Array(<<instance("terminated"), instance("running")>>)>>>>)>>)
nested_list_example == Array(<<
    Array(<<Number(0), Number(1)>>), Number(2), Array(<<Number(3)>>), Number(4),
    Array(<<Number(5), Array(<<Number(6), Number(7)>>)>>)>>)
with_nulls == Array(<<Null, Array(<<Null, Number(1)>>), String("a"), Array(<<Array(<<Null>>)>>)>>)

\* Every iteration order of a three-entry map.
Orders3(e) == {<<e[a], e[b], e[c]>> : <<a, b, c>> \in
                  {p \in (1..3) \X (1..3) \X (1..3) : Cardinality({p[1], p[2], p[3]}) = 3}}

Scalars == {Null, Bool(TRUE), Number(7), String("foo")}
Docs == Scalars \cup {Array(<<>>), Object(<<>>), flatmap, array, slice_example, people,
                      list_project_example, reservations, nested_list_example, with_nulls}
             \cup {Object(m) : m \in Orders3(ops_entries)}
SliceDocs == Scalars \cup {Array(<<>>), Array(<<Null>>), flatmap, slice_example, people,
                           with_nulls}

Keys == {"a", "d", "first", "people", "numArgs", "instances", "state"}
IntArgs == {ISIZE_MIN, ISIZE_MAX} \cup ((0 - MaxArg)..MaxArg)
Closures == {closure_identify(k) : k \in {"first", "numArgs", "instances", "state"}}
            \cup {closure_identify_project("instances", "state"),
                  closure_index(0), closure_index(0 - 1), closure_identity, closure_null}

BoundArgs == {None} \cup {Some(i) : i \in {ISIZE_MIN, ISIZE_MAX} \cup ((0 - MaxBound)..MaxBound)}
\* step is an Option<NonZeroIsize>: zero is not a value of the type.
StepArgs == {None} \cup {Some(i) : i \in ({ISIZE_MIN, ISIZE_MAX} \cup ((0 - MaxStep)..MaxStep)) \ {0}}
SliceArgs == {JMESSlice(a, b, c) : a \in BoundArgs, b \in BoundArgs, c \in StepArgs}

RECURSIVE TextsOfLen(_)
TextsOfLen(n) ==
    IF n = 0 THEN {<<>>} ELSE {Append(s, c) : s \in TextsOfLen(n - 1), c \in Chars}
\* Every text of at most max characters.
Texts(max) == UNION {TextsOfLen(n) : n \in 0..max}

(***************************************************************************)
(* State.                                                                  *)
(*   self   the value the pipeline currently holds (the last result)       *)
(*   prev   the value the last primitive consumed                          *)
(*   op     the last operation                                             *)
(*   key, idx, sl, proj   the arguments of the last operation              *)
(*   calls  invocations of the projection closure by the last operation    *)
(*   doc    the document the pipeline started from                         *)
(*   hist   the names of the primitives applied so far, oldest first       *)
(*   text   the text last handed to from_str                               *)
(*   res    the outcome of the last descriptor construction                *)
(***************************************************************************)
VARIABLES doc, self, prev, op, key, idx, sl, proj, calls, hist, text, res

vars == <<doc, self, prev, op, key, idx, sl, proj, calls, hist, text, res>>
args == <<key, idx, sl, proj>>
value_vars == <<doc, self, prev, calls, hist>>

InitArgs ==
    /\ prev = Null /\ op = "init" /\ key = "" /\ idx = 0 /\ sl = DefaultSlice
    /\ proj = closure_identity /\ calls = 0 /\ hist = <<>>
    /\ res = <<"none">>

Init == doc \in Docs /\ self = doc /\ text = <<>> /\ InitArgs
InitSlice == doc \in SliceDocs /\ self = doc /\ text = <<>> /\ InitArgs
InitParse == doc = Null /\ self = doc /\ text \in Texts(MaxTextLen) /\ InitArgs

Step(name, result, ncalls) ==
    /\ Len(hist) < MaxDepth
    /\ op' = name /\ prev' = self /\ self' = result /\ calls' = ncalls
    /\ hist' = Append(hist, name)
    /\ UNCHANGED <<doc, text, res>>

Identify ==
    \E k \in Keys :
        /\ Step("identify", identify(self, k), 0)
        /\ key' = k /\ UNCHANGED <<idx, sl, proj>>

Index ==
    \E i \in IntArgs :
        /\ Step("index", index(self, i), 0)
        /\ idx' = i /\ UNCHANGED <<key, sl, proj>>

Slice ==
    \E d \in SliceArgs :
        /\ Step("slice", slice(self, d), 0)
        /\ sl' = d /\ UNCHANGED <<key, idx, proj>>

ListProject ==
    \E c \in Closures :
        /\ Step("list_project", list_project(self, c), list_project_calls(self))
        /\ proj' = c /\ UNCHANGED <<key, idx, sl>>

SliceProject ==
    \E d \in SliceArgs, c \in Closures :
        /\ Step("slice_project", slice_project(self, d, c), slice_project_calls(self, d))
        /\ sl' = d /\ proj' = c /\ UNCHANGED <<key, idx>>

ObjectProject ==
    \E c \in Closures :
        /\ Step("object_project", object_project(self, c), object_project_calls(self))
        /\ proj' = c /\ UNCHANGED <<key, idx, sl>>

Flatten ==
    /\ Step("flatten", flatten(self), 0)
    /\ UNCHANGED args

Constructed(name, t, r) ==
    /\ op' = name /\ text' = t /\ res' = r
    /\ UNCHANGED value_vars /\ UNCHANGED args

\* A descriptor is constructed once, from the text the caller holds or, when
\* it holds none, from a range.
FromStr == op = "init" /\ Constructed("from_str", text, from_str(text))
FromRange ==
    /\ op = "init" /\ text = <<>>
    /\ \E a \in IntArgs, b \in IntArgs : Constructed("from_Range", text, Ok(from_Range(a, b)))
FromRangeFrom ==
    /\ op = "init" /\ text = <<>>
    /\ \E a \in IntArgs : Constructed("from_RangeFrom", text, Ok(from_RangeFrom(a)))
FromRangeTo ==
    /\ op = "init" /\ text = <<>>
    /\ \E b \in IntArgs : Constructed("from_RangeTo", text, Ok(from_RangeTo(b)))

Next == Identify \/ Index \/ ListProject \/ ObjectProject \/ Flatten
Spec == Init /\ [][Next]_vars

\* slice and slice_project are applied to the document itself.
NextSlice == (hist = <<>> /\ Slice) \/ (hist = <<>> /\ SliceProject)
SpecSlice == InitSlice /\ [][NextSlice]_vars

NextParse == FromStr \/ FromRange \/ FromRangeFrom \/ FromRangeTo
SpecParse == InitParse /\ [][NextParse]_vars

(***************************************************************************)
(* Properties.                                                             *)
(***************************************************************************)
Strings(seq) == Array([j \in 1..Len(seq) |-> String(seq[j])])
Numbers(seq) == Array([j \in 1..Len(seq) |-> Number(seq[j])])

\* C1: index on an array of length n returns the element at offset i when
\* 0 <= i < n, the element at offset n - |i| when i < 0 and |i| <= n, and
\* Null otherwise; on a value that is not an array it returns Null.  Every
\* isize, isize::MIN included, yields a value.
C1_IndexContract ==
    op = "index" =>
        IF is_array(prev)
        THEN LET n == Len(prev[2])
             IN  self = IF 0 <= idx /\ idx < n THEN prev[2][idx + 1]
                        ELSE IF idx < 0 /\ 0 - idx <= n THEN prev[2][n + idx + 1]
                        ELSE Null
        ELSE self = Null

C1_Witness ==
    /\ op = "index" /\ prev = array /\ idx = 0 - 1 /\ self = String("f")

\* The elements of vec at the offsets start, start + s, ... that lie before
\* `end` in the direction of s, in closed form.
Traverse(vec, start, end, s) ==
    LET span == IF s > 0 THEN end - start ELSE start - end
        stride == IF s > 0 THEN s ELSE 0 - s
        count == IF span > 0 THEN (span + stride - 1) \div stride ELSE 0
    IN  [k \in 1..count |-> vec[start + (k - 1) * s + 1]]

StepOf(d) == IF IsSome(d.step) THEN Unwrap(d.step) ELSE 1
\* The offset a present bound names: from the rear when negative.
Resolve(b, n) == IF b < 0 THEN n + b ELSE b
\* The sequence boundaries in the direction of travel.
Low(s) == IF s > 0 THEN 0 ELSE 0 - 1
High(s, n) == IF s > 0 THEN n ELSE n - 1
StartOffset(d, n) ==
    IF IsSome(d.start) THEN Resolve(Unwrap(d.start), n)
    ELSE IF StepOf(d) > 0 THEN 0 ELSE n - 1
EndOffset(d, n) ==
    IF IsSome(d.end) THEN Resolve(Unwrap(d.end), n)
    ELSE IF StepOf(d) > 0 THEN n ELSE 0 - 1
\* A bound is within the sequence when it is absent or names an offset
\* between the boundaries of the direction of travel.
WithinSequence(d, n) ==
    /\ StartOffset(d, n) \in Low(StepOf(d))..High(StepOf(d), n)
    /\ EndOffset(d, n) \in Low(StepOf(d))..High(StepOf(d), n)

\* C2: slice on an array always returns an Array, never Null; a start or end
\* outside the array is clamped to the nearest sequence boundary (the front
\* boundary is offset 0 going forward and "before the first element" going
\* backward; the rear boundary is the length going forward and the last
\* element going backward), and the result is the traversal from the clamped
\* start to the clamped end.
C2_SliceClamps ==
    op = "slice" /\ is_array(prev) =>
        LET n == Len(prev[2])
            s == StepOf(sl)
        IN  /\ is_array(self)
            /\ self[2] = Traverse(prev[2],
                                  Clamp(StartOffset(sl, n), Low(s), High(s, n)),
                                  Clamp(EndOffset(sl, n), Low(s), High(s, n)), s)

C2_Witness ==
    /\ op = "slice" /\ prev = slice_example
    /\ sl = JMESSlice(Some(ISIZE_MAX), None, Some(0 - 1))
    /\ self = Numbers(<<3, 2, 1, 0>>)

\* C3: with bounds that are absent or within the sequence, a negative step s
\* starts at the last element when start is absent, stops before the first
\* element when end is absent, and yields the elements at start, start + s,
\* ... strictly above end, high to low; a positive or absent step (1) yields
\* those from start (default 0) to strictly below end (default n), low to
\* high.  Step -1 without bounds reverses, step 2 without bounds keeps the
\* even offsets.
C3_SliceTraversal ==
    op = "slice" /\ is_array(prev) =>
        LET n == Len(prev[2])
        IN  /\ WithinSequence(sl, n) =>
                  self = Array(Traverse(prev[2], StartOffset(sl, n), EndOffset(sl, n),
                                        StepOf(sl)))
            /\ sl = JMESSlice(None, None, Some(0 - 1)) =>
                  self = Array([k \in 1..n |-> prev[2][n + 1 - k]])
            /\ sl = JMESSlice(None, None, Some(2)) =>
                  self = Array([k \in 1..((n + 1) \div 2) |-> prev[2][2 * k - 1]])

C3_Witness ==
    /\ op = "slice" /\ prev = slice_example
    /\ sl = JMESSlice(Some(3), Some(0), Some(0 - 2))
    /\ self = Numbers(<<3, 1>>)

\* The k-th smallest member of a set of positions.
Kth(S, k) == CHOOSE j \in S : Cardinality({i \in S : i < j}) = k - 1

\* out with its Null entries removed, the others in order.
WithoutNull(out) ==
    LET keep == {j \in 1..Len(out) : out[j] # Null}
    IN  [k \in 1..Cardinality(keep) |-> out[Kth(keep, k)]]

\* C4: list_project on an array returns the array of the projection's
\* results in source order with the Null results removed; the result holds
\* no Null and is no longer than the input.  On any other value it returns
\* Null.
C4_ListProject ==
    op = "list_project" =>
        IF is_array(prev)
        THEN /\ self = Array(WithoutNull([j \in 1..Len(prev[2]) |-> call(proj, prev[2][j])]))
             /\ \A k \in 1..Len(self[2]) : self[2][k] # Null
             /\ Len(self[2]) <= Len(prev[2])
        ELSE self = Null

C4_Witness ==
    /\ op = "list_project" /\ prev = people /\ proj = closure_identify("first")
    /\ self = Strings(<<"James", "Jacob", "Jayden">>)

\* C5: slice_project on an array equals list_project applied to the result
\* of slice; on any other value it returns Null and the projection is not
\* invoked.
C5_SliceProject ==
    op = "slice_project" =>
        IF is_array(prev)
        THEN self = list_project(slice(prev, sl), proj)
        ELSE self = Null /\ calls = 0

C5_Witness ==
    /\ op = "slice_project" /\ prev = people
    /\ sl = JMESSlice(None, Some(0 - 1), None) /\ proj = closure_identify("first")
    /\ self = Strings(<<"James", "Jacob", "Jayden">>)
    /\ calls = 3

\* Occurrences of x in a sequence.
Count(seq, x) == Cardinality({j \in 1..Len(seq) : seq[j] = x})

\* C6: object_project on an object returns an Array whose elements are, as
\* a multiset, the non-Null results of the projection applied once to the
\* value of each entry; on any other value, an array included, it returns
\* Null.
C6_ObjectProject ==
    op = "object_project" =>
        IF is_object(prev)
        THEN LET out == [j \in 1..Len(prev[2]) |-> call(proj, prev[2][j][2])]
             IN  /\ is_array(self)
                 /\ calls = Len(prev[2])
                 /\ Count(self[2], Null) = 0
                 /\ \A j \in 1..Len(out) :
                        out[j] # Null => Count(self[2], out[j]) = Count(out, out[j])
                 /\ \A k \in 1..Len(self[2]) : Count(out, self[2][k]) > 0
        ELSE self = Null

C6_Witness ==
    /\ op = "object_project" /\ proj = closure_identify("numArgs")
    /\ prev = Object(<<ops_entries[3], ops_entries[2], ops_entries[1]>>)
    /\ self = Numbers(<<3, 2>>)

\* What one element contributes to the flattened array.
Piece(e) == IF is_array(e) THEN e[2] ELSE <<e>>
RECURSIVE PiecesBefore(_, _)
PiecesBefore(vec, j) == IF j <= 1 THEN 0 ELSE PiecesBefore(vec, j - 1) + Len(Piece(vec[j - 1]))

\* C7: flatten on an array replaces each direct element that is an array by
\* that array's elements, unchanged, keeps every other element (Null
\* included) and the order; a second flatten removes one further level.  On
\* any other value it returns Null.
C7_Flatten ==
    /\ op = "flatten" =>
        IF is_array(prev)
        THEN /\ is_array(self)
             /\ Len(self[2]) = PiecesBefore(prev[2], Len(prev[2]) + 1)
             /\ \A j \in 1..Len(prev[2]) : \A k \in 1..Len(Piece(prev[2][j])) :
                    self[2][PiecesBefore(prev[2], j) + k] = Piece(prev[2][j])[k]
        ELSE self = Null
    /\ doc = nested_list_example /\ hist = <<"flatten">> =>
        self = Array(<<Number(0), Number(1), Number(2), Number(3), Number(4), Number(5),
                       Array(<<Number(6), Number(7)>>)>>)
    /\ doc = nested_list_example /\ hist = <<"flatten", "flatten">> =>
        self = Numbers(<<0, 1, 2, 3, 4, 5, 6, 7>>)

C7_Witness ==
    /\ doc = nested_list_example /\ hist = <<"flatten", "flatten">>
    /\ self = Numbers(<<0, 1, 2, 3, 4, 5, 6, 7>>)

\* The grammar [start]:[end][:[step]]: the pieces around one or two ':',
\* each empty or an optional '-' and one or more of the given digits.
SignedDigits(p, digits) ==
    LET body == IF Len(p) > 0 /\ p[1] = "-" THEN Tail(p) ELSE p
    IN  Len(body) > 0 /\ \A i \in 1..Len(body) : body[i] \in digits
Pieces(s) ==
    LET cols == {i \in 1..Len(s) : s[i] = ":"}
        first == Kth(cols, 1)
        last == Kth(cols, Cardinality(cols))
    IN  IF Cardinality(cols) = 1
        THEN <<SubSeq(s, 1, first - 1), SubSeq(s, first + 1, Len(s))>>
        ELSE <<SubSeq(s, 1, first - 1), SubSeq(s, first + 1, last - 1),
               SubSeq(s, last + 1, Len(s))>>
InGrammarOver(s, digits) ==
    /\ Cardinality({i \in 1..Len(s) : s[i] = ":"}) \in {1, 2}
    /\ \A j \in 1..Len(Pieces(s)) : Pieces(s)[j] = <<>> \/ SignedDigits(Pieces(s)[j], digits)
\* In the grammar, the integers written with the digits 0-9.
InGrammar(s) == InGrammarOver(s, {"0", "1", "9"})
\* Outside the grammar, even when every Unicode decimal digit counts as one.
OutsideGrammar(s) == ~InGrammarOver(s, {"0", "1", "9", "U+0663"})
\* The text has a step component, and it is zero.
ZeroStep(s) ==
    /\ Len(Pieces(s)) = 3 /\ Pieces(s)[3] # <<>>
    /\ \A i \in 1..Len(Pieces(s)[3]) : Pieces(s)[3][i] \in {"-", "0"}

\* C8: a text in the grammar whose step is present and zero fails with
\* StepNotAllowedToBeZero; a text in the grammar with the second colon and no
\* step digits yields a descriptor with step absent; a text outside the
\* grammar fails with InvalidFormat; no descriptor from from_str or from a
\* range conversion has step zero.
C8_ParseContract ==
    /\ op = "from_str" /\ InGrammar(text) /\ ZeroStep(text) =>
            res = Err(StepNotAllowedToBeZero)
    /\ op = "from_str" /\ InGrammar(text) /\ Len(Pieces(text)) = 3 /\ Pieces(text)[3] = <<>> =>
            res[1] = "Ok" /\ res[2].step = None
    /\ op = "from_str" /\ OutsideGrammar(text) => res = Err(InvalidFormat)
    /\ op \in {"from_str", "from_Range", "from_RangeFrom", "from_RangeTo"} /\ res[1] = "Ok" =>
            res[2].step # Some(0)

\* C9: from_str ends with a descriptor, InvalidFormat or
\* StepNotAllowedToBeZero for every text in the grammar, whatever the size
\* of the integers it denotes.
C9_ParseOutcomes ==
    op = "from_str" /\ InGrammar(text) =>
        \/ res[1] = "Ok"
        \/ res = Err(InvalidFormat)
        \/ res = Err(StepNotAllowedToBeZero)

\* C10: over the array of reservations, list_project of
\* identify("instances").list_project(identify("state")) yields the nested
\* array of states, and flatten followed by
\* list_project(identify("instances")) yields the flat array of states.
C10_FlattenProjection ==
    /\ doc = reservations /\ hist = <<"list_project">>
         /\ proj = closure_identify_project("instances", "state") =>
            self = Array(<<Strings(<<"running", "stopped">>),
                           Strings(<<"terminated", "running">>)>>)
    /\ doc = reservations /\ hist = <<"flatten", "list_project">>
         /\ proj = closure_identify("instances") =>
            self = Strings(<<"running", "stopped", "terminated", "running">>)

====
